---- MODULE Spec2Model ----
(***************************************************************************)
(* Job queue of the AI service (services/queue_service.py): the Redis      *)
(* pending list and job hashes, the asyncio worker task and the            *)
(* start_worker / stop_worker coroutines; and the lifecycle events sent    *)
(* by the /generate endpoint (main.py).                                    *)
(*                                                                         *)
(* Scheduling.  All coroutines of QueueService run on one asyncio event    *)
(* loop and the Redis client is synchronous, so a coroutine runs           *)
(* without giving way to another coroutine of the loop from one           *)
(* suspension point to the next.  The worker suspends only in              *)
(* `await flux_service.generate_image(...)` (pc "gen") and in              *)
(* `await asyncio.sleep(1)` (pc "sleep"); between iterations there is no   *)
(* await, so while the worker spins in brpop (pc "poll") no other          *)
(* coroutine of the loop runs.  Each Redis call of the worker is a step    *)
(* of its own: between BRPOP and the HSET of process_job (pc "popped"),    *)
(* and between a call that raised and the HSET of the except branch (pc    *)
(* "except"), the worker holds the loop while the Redis server serves its  *)
(* other clients and expires keys.  Every Redis call either takes effect   *)
(* or raises without effect.                                               *)
(*                                                                         *)
(* Channels.  The MQTT and EventBridge clients (services/mqtt_client.py,   *)
(* services/eventbridge_client.py) are module globals; the connected flag  *)
(* of an MqttClient is set by callbacks on the client's network thread,    *)
(* which run between any two steps.  get_mqtt_client without a global     *)
(* client is two steps: MqttClient.connect starts the network thread and   *)
(* sleeps one second (the thread of the event loop is blocked, the         *)
(* callbacks run), then the caller goes on with the flag it finds.  A      *)
(* channel call is recorded with the outcome of its transport.             *)
(*                                                                         *)
(* Host monitor.  One pass of InstanceMonitor.monitor_loop                 *)
(* (services/instance_monitor.py) awaits nothing that suspends before its  *)
(* sleep, so a cycle is one step; an event is emitted when it is handed    *)
(* to send_instance_event with a client.                                   *)
(*                                                                         *)
(* Lifespan.  main.py starts the monitor when the service starts, creates  *)
(* the FluxService and loads the model, and tells the monitor the service  *)
(* is ready; at shutdown it sends the stopping event, stops the monitor    *)
(* and, last, drops the MQTT client (cleanup_mqtt).  SpecLifespan also     *)
(* lets an exception leave a cycle at one of its helper calls.             *)
(*                                                                         *)
(* Image generation.  FluxService.generate_image                           *)
(* (services/flux_service.py) is followed from one progress report to the  *)
(* next; the pipeline calls the step callback once per denoising step,     *)
(* with the step index.                                                    *)
(*                                                                         *)
(* Service events.  send_service_event of main.py hands a lifecycle event  *)
(* of the service to the EventBridge sender through the executor and then  *)
(* to the MQTT client; the request handler of POST /generate needs the     *)
(* global flux_service, loads the model when it is not loaded, makes one   *)
(* progress callback per progress report of the collaborator and builds    *)
(* its response after the terminal event was sent.                         *)
(*                                                                         *)
(* Mock service.  simple_main.py keeps its jobs in a dict; process_image   *)
(* runs as a background task of the response and suspends in its two       *)
(* sleeps; SpecMock adds the client that polls GET /job/{job_id}.          *)
(***************************************************************************)
EXTENDS Integers, Sequences, FiniteSets, TLC

\* ---------------------------------------------------------------- bounds
MaxJobs == 2
MaxTasks == 2
MaxFaults == 1
MaxClock == 2
MaxRequests == 1
MaxClients == 2
MaxCycles == 2
MaxLoops == 2
MaxInferenceSteps == 11
MaxMockJobs == 2
MaxCallbacks == 2

\* ------------------------------------------------------- program constants
RetentionTTL == 86400

JobIds == 1..MaxJobs
TaskIds == 1..MaxTasks
ClientIds == 1..MaxClients
LoopIds == 1..MaxLoops

Absent == "absent"
NoTTL == -1
NoTime == -1

Payloads == {"cat"}

\* Results of the generation collaborator: a completed result, a failed
\* result with an error text, or an exception with that text.
Outcomes ==
  { [kind |-> "completed", image_data |-> "iVBOR", error |-> Absent],
    [kind |-> "failed", image_data |-> Absent, error |-> "OOM"],
    [kind |-> "raise", image_data |-> Absent, error |-> "OOM"] }

\* Outcome of one Redis call.
RedisOk == "ok"
RedisError == "error"
RedisTimeout == "timeout"
WriteResults == {RedisOk, RedisError, RedisTimeout}
PopResults == {RedisOk, RedisTimeout, RedisError}

\* str(e) of the exception a failed Redis call raises.
StoreErrorText == "ConnectionError"
StoreTimeoutText == "TimeoutError"

\* str(e) of the exception a Redis write raised.
StoreText(w) == IF w = RedisTimeout THEN StoreTimeoutText ELSE StoreErrorText

Terminal == {"completed", "failed"}

\* Notification channels; completion and error events go to the first two.
Channels == {"mqtt", "eventbridge", "http"}
TerminalChannels == {"mqtt", "eventbridge"}

\* Outcome of client.publish of paho: rc MQTT_ERR_SUCCESS, another rc, or
\* an exception.
MqttTransport == {"success", "rc_error", "raise"}

\* Outcome of put_events of boto3: no failed entry, FailedEntryCount > 0,
\* or an exception.
BusTransport == {"success", "failed_entry", "raise"}

\* Outcome of requests.post to the backend: a response, or an exception.
HttpTransport == {"success", "raise"}

\* What get_mqtt_client meets after MqttClient() or after the one second
\* wait of MqttClient.connect: client.connect raised ("refused", there is
\* no wait); self.connected is False when the wait ends ("pending", the
\* network loop keeps trying) or True ("connected"); with "dropped"
\* connect() returned True and the network thread ran _on_disconnect
\* before the caller's _publish_message read self.connected.
ConnectResults == {"connected", "dropped", "pending", "refused"}

\* The results with which connect() returns True.
ConnectReturnsTrue == {"connected", "dropped"}

\* boto3.client('events', ...) in EventBridgeClient.__init__.
CtorResults == {"ok", "raise"}

\* Job ids of the mock service (uuid4, never repeated).
MockIds == 1..MaxMockJobs

\* seed: Optional[int] = None of the mock's GenerationRequest.
NoSeed == -1

\* seed = request.seed or 42
DefaultSeed == 42

\* The requests posted to the mock service.
MockRequests == [ seed : {NoSeed, 0, 7}, width : {512}, height : {512} ]

NoRequest == [ seed |-> NoSeed, width |-> 0, height |-> 0 ]

\* image_url None.
NoUrl == [ seed |-> NoSeed, width |-> 0, height |-> 0 ]

\* What the probes of one monitor cycle find: the metadata of the host
\* and the status of the /health probe.
HostProbes ==
  [ instance_id : {"i-1"}, instance_type : {"g5"},
    public_ip : {"1.2.3.4"}, private_ip : {"10.0.0.1"},
    service_status : {"healthy", "unavailable"} ]

\* What the probe of spot/instance-action finds: 200 with the action, 404,
\* or a RequestException.
NoticeProbes ==
  { [status |-> 200, text |-> "terminate"],
    [status |-> 404, text |-> Absent],
    [status |-> 0, text |-> Absent] }

VARIABLES
  queue,        \* Redis list image_generation_queue, head first
  store,        \* Redis hashes job:{id}
  nextId,       \* number of job ids generated so far
  added,        \* history: job ids add_job has returned
  processing,   \* QueueService.processing
  worker_task,  \* QueueService.worker_task (0 is None)
  tasks,        \* the asyncio tasks created by start_worker
  stopAwait,    \* task a suspended stop_worker awaits (0: none suspended)
  faults,       \* number of Redis calls that have raised
  now,          \* datetime.utcnow()
  popLog,       \* history: job ids in the order brpop returned them
  startedLog,   \* history: job ids in the order they were marked processing
  statusLog,    \* history: the status values written to each job hash
  calls,        \* history: collaborator invocations per job
  collabError,  \* history: error text of the collaborator's failure per job
  stopCalled,   \* history: stop_worker has been called
  stopJob,      \* history: job in flight at the last stop_worker call
  events,       \* log of the calls of the channels for lifecycle events
  expired,      \* history: job ids whose hash Redis has deleted on expiry
  producer,     \* an add_job running outside the worker's event loop
  MQTT_BROKER_HOST,    \* the environment variable is set
  mqtt_client,         \* global of mqtt_client.py (0 is None)
  clients,             \* the MqttClient objects created so far
  eventbridge_client,  \* global of eventbridge_client.py is not None
  request,      \* number of the POST /generate request handled last
  response,     \* that request: none, running, or the response returned
  progressed,   \* history: progress callbacks made for that request
  collab,       \* history: outcome of the collaborator for that request
  job_id,       \* job_id of that request
  monitoring,       \* InstanceMonitor.monitoring
  last_state,       \* InstanceMonitor.last_state
  monitor_client,   \* InstanceMonitor.mqtt_client (0 is None)
  loops,            \* the monitor_loop tasks created by start_monitoring
  wake,             \* when the asyncio.sleep of each monitor_loop task ends
  time,             \* the clock: time.time() in whole seconds
  probes,           \* history: what each monitor cycle probed
  monitor_events,   \* history: the events handed to send_instance_event
  lifespan,         \* lifespan of main.py: running, or shut down
  flux_service,     \* global flux_service of main.py is not None
  is_loaded,        \* FluxService.is_loaded (and the pipeline is set)
  generation,       \* the call of FluxService.generate_image under way
  percentages,      \* history: progress values passed to its callback
  jobs,             \* simple_main.py: the dict jobs
  background,       \* simple_main.py: position of each process_image task
  seen              \* history: what GET /job/{job_id} last returned

vars == << queue, store, nextId, added, processing, worker_task, tasks,
           stopAwait, faults, now,
           popLog, startedLog, statusLog, calls, collabError, stopCalled,
           stopJob, events, expired, producer,
           MQTT_BROKER_HOST, mqtt_client, clients, eventbridge_client,
           request, response, progressed, collab, job_id,
           monitoring, last_state, monitor_client, loops, wake, time, probes,
           monitor_events, lifespan, flux_service, is_loaded, generation,
           percentages,
           jobs, background, seen >>

\* State of QueueService and of its Redis keys.
queueVars == << queue, store, nextId, added, processing, worker_task, tasks,
                stopAwait, faults, now, popLog, startedLog, statusLog, calls,
                collabError, stopCalled, stopJob, expired >>

\* Globals of mqtt_client.py and eventbridge_client.py, and the requests
\* of main.py.
channelVars == << MQTT_BROKER_HOST, mqtt_client, clients, eventbridge_client,
                  request, response, progressed, collab, job_id >>

\* Variables of a producer on another thread or process.
producerVars == << producer >>

\* Everything but the state of QueueService and its Redis keys.
\* State of InstanceMonitor.
monitorVars == << monitoring, last_state, monitor_client, loops, wake, time,
                 probes, monitor_events, lifespan >>

\* State of FluxService.
fluxVars == << flux_service, is_loaded, generation, percentages >>

\* State of the mock service (simple_main.py) and of its client.
mockVars == << jobs, background, seen >>

outsideQueue ==
  << producerVars, channelVars, monitorVars, fluxVars, mockVars >>

\* ------------------------------------------------------------ Redis model
NoRecord ==
  [ exists |-> FALSE, status |-> Absent, created_at |-> NoTime,
    updated_at |-> NoTime, data |-> Absent, image_url |-> Absent,
    metadata |-> Absent, error |-> Absent, ttl |-> NoTTL ]

\* HSET key mapping: creates the hash when missing (without expiry) and
\* overwrites the given fields only.
hset(rec, mapping) ==
  [ f \in DOMAIN rec |->
      IF f = "exists" THEN TRUE
      ELSE IF f \in DOMAIN mapping THEN mapping[f]
      ELSE rec[f] ]

\* An EXPIRE that is never sent.
expire_skipped(rec, seconds) == rec

\* EXPIRE key seconds: no effect on a missing key.
expire(rec, seconds) ==
  IF rec.exists THEN [rec EXCEPT !.ttl = seconds] ELSE rec

\* RPUSH in place of LPUSH: the new job lands at the end brpop reads.
lpush_as_rpush(q, e) == Append(q, e)

lpush(q, e) == <<e>> \o q

brpop_value(q) == q[Len(q)]

\* Reading the last element without removing it.
brpop_rest_peek(q) == q

brpop_rest(q) == SubSeq(q, 1, Len(q) - 1)

\* f"data:image/png;base64,{result['image_data']}"
ImageUrl(image_data) ==
  CASE image_data = "iVBOR" -> "data:image/png;base64,iVBOR"
    [] OTHER -> "data:image/png;base64,"

\* ----------------------------------------------------------- QueueService
\* An update that replaces the hash instead of setting fields in it.
update_job_status_replaces(rec, status, kwargs) ==
  hset(NoRecord, kwargs @@ [status |-> status, updated_at |-> now])

\* update_job_status: the hash after HSET of status, updated_at and the
\* keyword fields (update_data.update(kwargs): the keyword fields win).
update_job_status(rec, status, kwargs) ==
  hset(rec, kwargs @@ [status |-> status, updated_at |-> now])

\* update_job_status called with no keyword fields.
NoFields == << >>

\* get_job_status: None for a missing hash, else the projection.
get_job_status(j) ==
  IF ~store[j].exists THEN [found |-> FALSE]
  ELSE [ found |-> TRUE, job_id |-> j, status |-> store[j].status,
         created_at |-> store[j].created_at,
         updated_at |-> store[j].updated_at,
         image_url |-> store[j].image_url, error |-> store[j].error ]

\* A completed write that also fills the error field.
CompletedFields_with_error(result) ==
  [ image_url |-> ImageUrl(result.image_data), metadata |-> "metadata",
    error |-> "" ]

\* Keyword fields process_job writes for a completed result.
CompletedFields(result) ==
  [ image_url |-> ImageUrl(result.image_data), metadata |-> "metadata" ]

\* Keyword fields process_job writes for a failed result:
\* result.get("error", "Unknown error").
FailedFields(result) ==
  [ error |-> IF result.error = Absent THEN "Unknown error" ELSE result.error ]

\* Keyword fields the except branch of process_job writes: str(e).
ExceptFields(text) == [ error |-> text ]

\* Status the except branch of process_job writes.
ExceptStatus == "failed"

NoTask ==
  [ state |-> "none", pc |-> "none", cur |-> 0, cancel |-> FALSE,
    exc |-> Absent ]

Alive(t) == tasks[t].state = "alive"

\* worker_task and not worker_task.done()
TaskRunning == worker_task # 0 /\ Alive(worker_task)

\* Positions of the worker between two awaits that suspend: it holds the
\* event loop there.
HoldsLoop == {"poll", "popped", "except"}

\* No task holds the event loop: coroutines of the loop may be scheduled.
LoopFree == \A t \in TaskIds : ~(Alive(t) /\ tasks[t].pc \in HoldsLoop)

\* A worker without the blanket except: the exception ends the task.
worker_except_propagates(task) ==
  [task EXCEPT !.state = "finished", !.pc = "none", !.cur = 0]

\* except Exception in worker: log, then await asyncio.sleep(1).
worker_except(task) ==
  [task EXCEPT !.pc = "sleep", !.cur = 0, !.exc = Absent]

\* except redis.exceptions.TimeoutError in worker: continue, the loop goes
\* on to the next brpop without sleeping.
worker_timeout(task) ==
  [task EXCEPT !.pc = "poll", !.cur = 0, !.exc = Absent]

\* A worker that handles one job and returns (`if` for `while`).
worker_continue_once(task) ==
  [task EXCEPT !.state = "finished", !.pc = "none", !.cur = 0]

\* process_job returned: the while loop goes on to the next brpop.
worker_continue(task) ==
  [task EXCEPT !.pc = "poll", !.cur = 0, !.exc = Absent]

\* An exception raised inside the try of process_job: control goes to the
\* except branch with str(e).
process_job_raises(task, text) == [task EXCEPT !.pc = "except", !.exc = text]

\* `while self.processing` found the flag cleared: the coroutine returns.
worker_return(task) ==
  [task EXCEPT !.state = "finished", !.pc = "none", !.cur = 0]

\* n Redis calls raise in this step.
Raised(n) ==
  /\ faults + n <= MaxFaults
  /\ faults' = faults + n

InitQueue ==
  /\ queue = << >>
  /\ store = [j \in JobIds |-> NoRecord]
  /\ nextId = 0
  /\ added = {}
  /\ processing = FALSE
  /\ worker_task = 0
  /\ tasks = [t \in TaskIds |-> NoTask]
  /\ stopAwait = 0
  /\ faults = 0
  /\ now = 0
  /\ popLog = << >>
  /\ startedLog = << >>
  /\ statusLog = [j \in JobIds |-> << >>]
  /\ calls = [j \in JobIds |-> 0]
  /\ collabError = [j \in JobIds |-> Absent]
  /\ stopCalled = FALSE
  /\ stopJob = 0
  /\ events = {}
  /\ expired = {}
  /\ producer = [pc |-> "idle", job |-> 0, data |-> Absent, at |-> NoTime]

NoClient ==
  [ made |-> FALSE, connected |-> FALSE, loop |-> FALSE, waiting |-> FALSE ]

\* Module globals after import, before any request.
InitChannels ==
  /\ mqtt_client = 0
  /\ clients = [c \in ClientIds |-> NoClient]
  /\ eventbridge_client = FALSE
  /\ request = 0
  /\ response = "none"
  /\ progressed = 0
  /\ collab = Absent
  /\ job_id = Absent

\* self.last_state = None
NoState ==
  [ instance_id |-> "None", instance_type |-> "None", public_ip |-> "None",
    private_ip |-> "None", service_status |-> "None", timestamp |-> NoTime,
    timestamp_frac |-> 0 ]

\* InstanceMonitor.__init__.
InitMonitor ==
  /\ monitoring = FALSE
  /\ last_state = NoState
  /\ monitor_client = 0
  /\ loops = [l \in LoopIds |-> "none"]
  /\ wake = [l \in LoopIds |-> 0]
  /\ time = 0
  /\ probes = << >>
  /\ monitor_events = << >>
  /\ lifespan = "running"

\* No call of generate_image is under way.
Idle ==
  [ pc |-> "idle", num_inference_steps |-> 0, callback |-> FALSE, step |-> 0,
    status |-> Absent, image_data |-> Absent, error |-> Absent ]

\* FluxService.__init__.
InitFlux ==
  /\ flux_service = FALSE
  /\ is_loaded = FALSE
  /\ generation = Idle
  /\ percentages = << >>

\* A job id that is not a key of jobs, and the answer 404 for it.
NoJob ==
  [ status |-> "404", progress |-> -1, request |-> NoRequest,
    image_url |-> NoUrl, error |-> Absent ]

\* jobs = {} of simple_main.py; nothing scheduled, nothing polled.
InitMock ==
  /\ jobs = [j \in MockIds |-> NoJob]
  /\ background = [j \in MockIds |-> "none"]
  /\ seen = [j \in MockIds |-> NoJob]

\* A process started without MQTT_BROKER_HOST.
Init ==
  /\ InitQueue
  /\ InitChannels
  /\ InitMonitor
  /\ InitFlux
  /\ InitMock
  /\ MQTT_BROKER_HOST = FALSE

\* A process started with or without MQTT_BROKER_HOST.
InitEnv ==
  /\ InitQueue
  /\ InitChannels
  /\ InitMonitor
  /\ InitFlux
  /\ InitMock
  /\ MQTT_BROKER_HOST \in BOOLEAN

\* add_job(job_data): LPUSH the job, HSET the hash, EXPIRE it; any Redis
\* call that raises ends the coroutine there.
add_job(job_data, r1, r2, r3) ==
  /\ nextId < MaxJobs
  /\ Raised(IF r1 # RedisOk \/ r2 # RedisOk \/ r3 # RedisOk THEN 1 ELSE 0)
  /\ LET j == nextId + 1
         job == [id |-> j, data |-> job_data]
         pushed == r1 = RedisOk
         written == pushed /\ r2 = RedisOk
         expiring == written /\ r3 = RedisOk
         rec1 == IF written
                 THEN hset(store[j], [ status |-> "queued",
                                       created_at |-> now,
                                       updated_at |-> now,
                                       data |-> job_data ])
                 ELSE store[j]
         rec2 == IF expiring THEN expire(rec1, RetentionTTL) ELSE rec1
     IN /\ nextId' = j
        /\ added' = IF expiring THEN added \cup {j} ELSE added
        /\ queue' = IF pushed THEN lpush(queue, job) ELSE queue
        /\ store' = [store EXCEPT ![j] = rec2]
        /\ statusLog' = IF written
                        THEN [statusLog EXCEPT ![j] = Append(@, "queued")]
                        ELSE statusLog
  /\ UNCHANGED << now, processing, worker_task, tasks, stopAwait, popLog,
                  startedLog, calls, collabError, stopCalled, stopJob,
                  events, expired >>

\* start_worker without the test of the running task.
start_worker_never_returns_early == FALSE

\* if self.worker_task and not self.worker_task.done(): return
start_worker_returns_early == TaskRunning

\* start_worker: return when a task exists and is not done; otherwise set
\* the flag and create the task (it first runs at its next scheduling).
start_worker ==
  /\ LoopFree
  /\ \E t \in TaskIds : tasks[t].state = "none"
  /\ IF start_worker_returns_early
     THEN UNCHANGED << processing, worker_task, tasks >>
     ELSE LET t == CHOOSE x \in TaskIds :
                     /\ tasks[x].state = "none"
                     /\ \A y \in TaskIds : tasks[y].state = "none" => x <= y
          IN /\ processing' = TRUE
             /\ worker_task' = t
             /\ tasks' = [tasks EXCEPT ![t] =
                            [state |-> "alive", pc |-> "created",
                             cur |-> 0, cancel |-> FALSE, exc |-> Absent]]
  /\ UNCHANGED << now, queue, store, nextId, added, stopAwait, faults, popLog,
                  startedLog, statusLog, calls, collabError, stopCalled,
                  stopJob, events, expired >>

\* A stop_worker that clears the flag and returns.
stop_worker_never_awaits == FALSE

\* if self.worker_task and not self.worker_task.done(): cancel and await
stop_worker_awaits == TaskRunning

\* stop_worker up to its await: clear the flag; when the task is not done,
\* cancel it and suspend awaiting it.
stop_worker_call ==
  /\ LoopFree
  /\ stopAwait = 0
  /\ processing' = FALSE
  /\ stopCalled' = TRUE
  /\ IF stop_worker_awaits
     THEN /\ tasks' = [tasks EXCEPT ![worker_task].cancel = TRUE]
          /\ stopAwait' = worker_task
          /\ stopJob' = tasks[worker_task].cur
     ELSE /\ UNCHANGED << tasks, stopAwait >>
          /\ stopJob' = 0
  /\ UNCHANGED << now, queue, store, nextId, added, worker_task, faults, popLog,
                  startedLog, statusLog, calls, collabError, events, expired >>

\* The awaited task is done: `await self.worker_task` raises CancelledError
\* (or returns), stop_worker passes and returns.
stop_worker_return ==
  /\ LoopFree
  /\ stopAwait # 0
  /\ ~Alive(stopAwait)
  /\ stopAwait' = 0
  /\ UNCHANGED << now, queue, store, nextId, added, processing, worker_task,
                  tasks, faults, popLog, startedLog, statusLog, calls,
                  collabError, stopCalled, stopJob, events, expired >>

\* Task.cancel() takes effect: CancelledError is raised at the await the
\* task is suspended in (or before its first step).  CancelledError is not
\* an Exception, so neither process_job nor worker catches it.
worker_cancelled(t) ==
  /\ LoopFree
  /\ Alive(t)
  /\ tasks[t].cancel
  /\ tasks' = [tasks EXCEPT ![t] =
                 [state |-> "cancelled", pc |-> "none", cur |-> 0,
                  cancel |-> FALSE, exc |-> Absent]]
  /\ UNCHANGED << now, queue, store, nextId, added, processing, worker_task,
                  stopAwait, faults, popLog, startedLog, statusLog, calls,
                  collabError, stopCalled, stopJob, events, expired >>

\* One pass of the worker loop from the `while` test to the call of
\* process_job: brpop and json.loads.
worker_iterate(t, pop) ==
  /\ Alive(t)
  /\ ~tasks[t].cancel
  /\ tasks[t].pc \in {"created", "sleep", "poll"}
  /\ tasks[t].pc = "poll" \/ LoopFree
  /\ IF ~processing
     THEN /\ tasks' = [tasks EXCEPT ![t] = worker_return(@)]
          /\ UNCHANGED << queue, faults, popLog >>
     ELSE IF pop = RedisTimeout
     THEN /\ tasks' = [tasks EXCEPT ![t] = worker_continue(@)]
          /\ UNCHANGED << queue, faults, popLog >>
     ELSE IF pop = RedisError
     THEN /\ Raised(1)
          /\ tasks' = [tasks EXCEPT ![t] = worker_except(@)]
          /\ UNCHANGED << queue, popLog >>
     ELSE IF queue = << >>
     THEN /\ tasks' = [tasks EXCEPT ![t] = worker_continue(@)]
          /\ UNCHANGED << queue, faults, popLog >>
     ELSE LET job == brpop_value(queue)
          IN /\ queue' = brpop_rest(queue)
             /\ popLog' = Append(popLog, job.id)
             /\ tasks' = [tasks EXCEPT ![t].pc = "popped", ![t].cur = job.id]
             /\ UNCHANGED faults
  /\ UNCHANGED << now, store, nextId, added, processing, worker_task,
                  stopAwait, startedLog, statusLog, calls, collabError,
                  stopCalled, stopJob, events, expired >>

\* process_job up to the collaborator call: update_job_status(job_id,
\* "processing"), then the await of generate_image; when the HSET raises,
\* control goes to the except branch.
process_job(t, w) ==
  /\ Alive(t)
  /\ tasks[t].pc = "popped"
  /\ LET j == tasks[t].cur
     IN IF w = RedisOk
        THEN /\ store' = [store EXCEPT ![j] =
                           update_job_status(@, "processing", NoFields)]
             /\ statusLog' = [statusLog EXCEPT ![j] = Append(@, "processing")]
             /\ startedLog' = Append(startedLog, j)
             /\ calls' = [calls EXCEPT ![j] = @ + 1]
             /\ tasks' = [tasks EXCEPT ![t].pc = "gen"]
             /\ UNCHANGED faults
        ELSE /\ Raised(1)
             /\ tasks' = [tasks EXCEPT ![t] =
                            process_job_raises(@, StoreText(w))]
             /\ UNCHANGED << store, statusLog, startedLog, calls >>
  /\ UNCHANGED << now, queue, nextId, added, processing, worker_task,
                  stopAwait, popLog, collabError, stopCalled, stopJob, events,
                  expired >>

\* The except branch of process_job: update_job_status(job_id, "failed",
\* error=str(e)); when that call raises too, the exception leaves
\* process_job and is caught by worker: a redis TimeoutError by the
\* clause that continues with the next brpop, anything else by the clause
\* that logs and sleeps.
process_job_except(t, w) ==
  /\ Alive(t)
  /\ tasks[t].pc = "except"
  /\ LET j == tasks[t].cur
     IN IF w = RedisOk
        THEN /\ store' = [store EXCEPT ![j] =
                           update_job_status(@, ExceptStatus,
                                             ExceptFields(tasks[t].exc))]
             /\ statusLog' = [statusLog EXCEPT ![j] = Append(@, ExceptStatus)]
             /\ tasks' = [tasks EXCEPT ![t] = worker_continue(@)]
             /\ UNCHANGED faults
        ELSE /\ Raised(1)
             /\ tasks' = [tasks EXCEPT ![t] =
                            IF w = RedisTimeout THEN worker_timeout(@)
                            ELSE worker_except(@)]
             /\ UNCHANGED << store, statusLog >>
  /\ UNCHANGED << now, queue, nextId, added, processing, worker_task,
                  stopAwait, popLog, startedLog, calls, collabError,
                  stopCalled, stopJob, events, expired >>

\* The collaborator call of task t ends with `result`; process_job records
\* the outcome and the worker loop goes on, or the call raised, or the
\* HSET of the outcome raises, and control goes to the except branch.
worker_resume(t, result, w) ==
  /\ Alive(t)
  /\ ~tasks[t].cancel
  /\ tasks[t].pc = "gen"
  /\ LoopFree
  /\ LET j == tasks[t].cur
     IN /\ collabError' =
             IF result.kind = "completed" THEN collabError
             ELSE [collabError EXCEPT ![j] =
                     IF result.error = Absent THEN "none" ELSE result.error]
        /\ IF result.kind = "raise"
           THEN /\ tasks' = [tasks EXCEPT ![t] =
                               process_job_raises(@, result.error)]
                /\ UNCHANGED << store, statusLog, faults >>
           ELSE IF w # RedisOk
           THEN /\ Raised(1)
                /\ tasks' = [tasks EXCEPT ![t] =
                               process_job_raises(@, StoreText(w))]
                /\ UNCHANGED << store, statusLog >>
           ELSE /\ store' = [store EXCEPT ![j] =
                     IF result.kind = "completed"
                     THEN update_job_status(@, "completed",
                                            CompletedFields(result))
                     ELSE update_job_status(@, "failed",
                                            FailedFields(result))]
                /\ statusLog' = [statusLog EXCEPT ![j] =
                     Append(@, IF result.kind = "completed"
                               THEN "completed" ELSE "failed")]
                /\ tasks' = [tasks EXCEPT ![t] = worker_continue(@)]
                /\ UNCHANGED faults
  /\ UNCHANGED << now, queue, nextId, added, processing, worker_task, stopAwait,
                  popLog, startedLog, calls, stopCalled, stopJob, events,
                  expired >>

\* Redis deletes a hash whose expiry has passed.
key_expires(j) ==
  /\ store[j].exists
  /\ store[j].ttl # NoTTL
  /\ store' = [store EXCEPT ![j] = NoRecord]
  /\ expired' = expired \cup {j}
  /\ UNCHANGED << now, queue, nextId, added, processing, worker_task, tasks,
                  stopAwait, faults, popLog, startedLog, statusLog, calls,
                  collabError, stopCalled, stopJob, events >>

\* ------------------------------------------------- notification channels
\* MqttClient._publish_message without the test of self.connected.
publish_message_unchecked(connected, transport) ==
  [ handed |-> TRUE,
    result |-> IF transport = "success" THEN "true" ELSE "false" ]

\* MqttClient._publish_message: False at once when not connected; else
\* client.publish, True for rc MQTT_ERR_SUCCESS, False for another rc or an
\* exception.  `handed` tells whether client.publish was called.
publish_message(connected, transport) ==
  IF ~connected
  THEN [ handed |-> FALSE, result |-> "false" ]
  ELSE [ handed |-> TRUE,
         result |-> IF transport = "success" THEN "true" ELSE "false" ]

\* EventBridgeClient._send_event that does not look at FailedEntryCount.
send_event_count_ignored(transport) ==
  IF transport = "raise" THEN "false" ELSE "true"

\* EventBridgeClient._send_event: put_events; False when FailedEntryCount
\* is positive or an exception was raised, else True.
send_event(transport) ==
  IF transport = "success" THEN "true" ELSE "false"

\* get_mqtt_client creates a client: MQTT is configured and the global is
\* None.
NeedsClient == MQTT_BROKER_HOST /\ mqtt_client = 0

FreeClient ==
  CHOOSE c \in ClientIds :
    /\ ~clients[c].made
    /\ \A d \in ClientIds : ~clients[d].made => c <= d

\* The thread of the event loop is inside time.sleep(1) of
\* MqttClient.connect: the new client is the global, its network thread
\* runs and writes its connected flag.
MqttWaiting == \E c \in ClientIds : clients[c].waiting

\* get_mqtt_client up to the wait of MqttClient.connect: MQTT is
\* configured and the global is None, so a new MqttClient is assigned to
\* the global, client.connect returns, loop_start() starts the network
\* thread and the caller's thread sleeps one second.
connect ==
  /\ NeedsClient
  /\ \E c \in ClientIds : ~clients[c].made
  /\ clients' = [clients EXCEPT ![FreeClient] =
                   [ made |-> TRUE, connected |-> FALSE, loop |-> TRUE,
                     waiting |-> TRUE ]]
  /\ mqtt_client' = FreeClient
  /\ UNCHANGED << queueVars, monitorVars, events, producerVars, mockVars,
                  fluxVars, MQTT_BROKER_HOST, eventbridge_client, request,
                  response, progressed, collab, job_id >>

\* The outcome conn is one the state allows: without a global client the
\* call goes on in the same step only when client.connect raises; after
\* the wait connect() returns the connected flag.
ConnectOutcome(conn) ==
  IF NeedsClient
  THEN conn = "refused" /\ \E c \in ClientIds : ~clients[c].made
  ELSE MqttWaiting =>
         /\ conn # "refused"
         /\ (conn \in ConnectReturnsTrue) <=> clients[mqtt_client].connected

\* get_mqtt_client: None when MQTT_BROKER_HOST is unset; the global when
\* there is one; else a new MqttClient, kept only if connect() returns
\* True: dropped at once when client.connect raises, and after the wait
\* of connect() when self.connected is False.  Gives the returned client
\* and the objects afterwards.
get_mqtt_client(conn) ==
  IF ~MQTT_BROKER_HOST
  THEN [ client |-> 0, global |-> mqtt_client, clients |-> clients ]
  ELSE IF mqtt_client = 0
  THEN [ client |-> 0, global |-> 0,
         clients |-> [clients EXCEPT ![FreeClient] =
                        [ made |-> TRUE, connected |-> FALSE,
                          loop |-> FALSE, waiting |-> FALSE ]] ]
  ELSE IF ~clients[mqtt_client].waiting
  THEN [ client |-> mqtt_client, global |-> mqtt_client,
         clients |-> clients ]
  ELSE IF clients[mqtt_client].connected
  THEN [ client |-> mqtt_client, global |-> mqtt_client,
         clients |-> [clients EXCEPT
                        ![mqtt_client].waiting = FALSE,
                        ![mqtt_client].connected = (conn # "dropped")] ]
  ELSE [ client |-> 0, global |-> 0,
         clients |-> [clients EXCEPT ![mqtt_client].waiting = FALSE] ]

\* The result of one channel call: did an exception leave the call, was
\* the transport called, what did the channel's send return.
Skipped ==
  [ raised |-> FALSE, handed |-> FALSE, connected |-> FALSE,
    transport |-> "unused", result |-> "none" ]

\* send_*_update of mqtt_client.py without `if client` and without try.
mqtt_send_update_unguarded(g, transport) ==
  IF g.client = 0
  THEN [Skipped EXCEPT !.raised = TRUE]
  ELSE LET c == g.clients[g.client].connected
           r == publish_message(c, transport)
       IN [ raised |-> FALSE, handed |-> r.handed, connected |-> c,
            transport |-> IF r.handed THEN transport ELSE "unused",
            result |-> r.result ]

\* send_progress_update, send_completion_update, send_error_update of
\* mqtt_client.py: nothing is sent without a client; every exception is
\* caught and logged.
mqtt_send_update(g, transport) ==
  IF g.client = 0
  THEN Skipped
  ELSE LET c == g.clients[g.client].connected
           r == publish_message(c, transport)
       IN [ raised |-> FALSE, handed |-> r.handed, connected |-> c,
            transport |-> IF r.handed THEN transport ELSE "unused",
            result |-> r.result ]

\* send_*_update of eventbridge_client.py without the try.
eb_send_update_no_try(made, ctor, transport) ==
  IF ~made /\ ctor = "raise"
  THEN [Skipped EXCEPT !.raised = TRUE]
  ELSE [ raised |-> FALSE, handed |-> TRUE, connected |-> TRUE,
         transport |-> transport, result |-> send_event(transport) ]

\* send_progress_update, send_completion_update, send_error_update of
\* eventbridge_client.py: get_eventbridge_client (which constructs the
\* client when the global is None), then the send; every exception is
\* caught and logged.
eb_send_update(made, ctor, transport) ==
  IF ~made /\ ctor = "raise"
  THEN Skipped
  ELSE [ raised |-> FALSE, handed |-> TRUE, connected |-> TRUE,
         transport |-> transport, result |-> send_event(transport) ]

\* The HTTP fallback without its own try: an exception of requests.post
\* leaves it.
http_fallback_no_try(transport) ==
  [ raised |-> transport = "raise", handed |-> TRUE, connected |-> TRUE,
    transport |-> transport, result |-> "none" ]

\* The HTTP fallback of progress_callback: requests.post with timeout 1
\* inside try / except: pass.  The response is not looked at.
http_fallback(transport) ==
  [ raised |-> FALSE, handed |-> TRUE, connected |-> TRUE,
    transport |-> transport, result |-> "none" ]

\* The calls of one try block, in order: those up to the first one that
\* raises are made, the except clause of the block swallows the exception.
Made(sends) ==
  { i \in 1..Len(sends) : \A k \in 1..(i - 1) : ~sends[k].raised }

EventsOf(r, kind, chans, sends) ==
  { [ job |-> r, kind |-> kind, chan |-> chans[i],
      raised |-> sends[i].raised, handed |-> sends[i].handed,
      connected |-> sends[i].connected, transport |-> sends[i].transport,
      result |-> sends[i].result ] : i \in Made(sends) }

\* job_id: Optional[str] = Field(default="direct") of GenerationRequest:
\* a string, or None for a request with "job_id": null.
JobIdInputs == {"direct", "None"}

\* flux_service = FluxService() and flux_service.load_model() of lifespan:
\* the global is set, and is_loaded with it when the model loads.
lifespan_load_model(ok) ==
  /\ lifespan = "running"
  /\ ~flux_service
  /\ flux_service' = TRUE
  /\ is_loaded' = ok
  /\ UNCHANGED << queueVars, events, producerVars, mockVars, channelVars,
                  monitorVars, generation, percentages >>

\* POST /generate up to the call of the collaborator: HTTP 503 and nothing
\* else without the global flux_service; FluxService.initialize is awaited
\* when the model is not loaded, it sets is_loaded or returns False (it
\* catches every exception) and its result is not read.  The handler never
\* yields the event loop (flux_service.generate_image contains no await),
\* so requests are handled one after the other; `events` is the log of
\* the request being handled.
generate_image_call(id, loads) ==
  /\ flux_service
  /\ response \notin {"running", "except"}
  /\ request < MaxRequests
  /\ request' = request + 1
  /\ job_id' = id
  /\ response' = "running"
  /\ progressed' = 0
  /\ collab' = Absent
  /\ events' = {}
  /\ is_loaded' = IF is_loaded THEN TRUE ELSE loads
  /\ UNCHANGED << queueVars, monitorVars, producerVars, mockVars,
                  MQTT_BROKER_HOST, mqtt_client, clients, eventbridge_client,
                  flux_service, generation, percentages >>

\* progress_callback of POST /generate: the progress event goes to MQTT,
\* to EventBridge and to the HTTP callback, inside one try.
progress_callback(conn, mt, ctor, bt, ht) ==
  /\ response = "running"
  /\ is_loaded
  /\ progressed < MaxCallbacks
  /\ ConnectOutcome(conn)
  /\ LET g == get_mqtt_client(conn)
         sends == << mqtt_send_update(g, mt),
                     eb_send_update(eventbridge_client, ctor, bt),
                     http_fallback(ht) >>
     IN /\ events' = events \cup
             EventsOf(request, "progress",
                      << "mqtt", "eventbridge", "http" >>, sends)
        /\ mqtt_client' = g.global
        /\ clients' = g.clients
        /\ eventbridge_client' =
             (eventbridge_client \/ (2 \in Made(sends) /\ ctor = "ok"))
  /\ progressed' = progressed + 1
  /\ UNCHANGED << queueVars, monitorVars, producerVars, mockVars, fluxVars,
                  MQTT_BROKER_HOST, request,
                  response, collab, job_id >>

\* GenerationResponse(job_id=request.job_id, status=...): the field
\* job_id is a str, so the constructor raises ValidationError for None.
GenerationResponse(id, status) ==
  IF id = "None" THEN "ValidationError" ELSE status

\* Response of POST /generate for a collaborator outcome: an exception
\* raised inside the handler's try, by the collaborator or by the
\* construction of the response, becomes HTTP 500.
ResponseOf(kind, id) ==
  CASE kind = "raise" -> "error500"
    [] GenerationResponse(id, kind) = "ValidationError" -> "error500"
    [] kind = "completed" -> "completed"
    [] OTHER -> "failed"

\* Kind of the terminal event for a collaborator outcome: the completion
\* event, or the error event (for a failed result as for an exception).
TerminalKind(kind) == IF kind = "completed" THEN "completed" ELSE "failed"

\* POST /generate from the return of the collaborator: the completion or
\* the error event goes to MQTT and EventBridge inside one try, then the
\* response is returned.  FluxService.generate_image raises only without
\* a loaded model (ValueError, before any progress report); everything
\* else it catches and returns as a failed result.  When the construction
\* of the response raises, the handler is in its except branch next.
generate_image(result, conn, mt, ctor, bt) ==
  /\ response = "running"
  /\ (result.kind = "raise") <=> ~is_loaded
  /\ result.kind = "raise" => progressed = 0
  /\ ConnectOutcome(conn)
  /\ LET g == get_mqtt_client(conn)
         sends == << mqtt_send_update(g, mt),
                     eb_send_update(eventbridge_client, ctor, bt) >>
     IN /\ events' = events \cup
             EventsOf(request, TerminalKind(result.kind),
                      << "mqtt", "eventbridge" >>, sends)
        /\ mqtt_client' = g.global
        /\ clients' = g.clients
        /\ eventbridge_client' =
             (eventbridge_client \/ (2 \in Made(sends) /\ ctor = "ok"))
  /\ response' =
       IF /\ result.kind # "raise"
          /\ GenerationResponse(job_id, result.kind) = "ValidationError"
       THEN "except"
       ELSE ResponseOf(result.kind, job_id)
  /\ collab' = result.kind
  /\ UNCHANGED << queueVars, monitorVars, producerVars, mockVars, fluxVars,
                  MQTT_BROKER_HOST, request,
                  progressed, job_id >>

\* The except branch of POST /generate, entered after the terminal event
\* was sent: the error event goes to MQTT and EventBridge inside one try,
\* then HTTPException(500) is raised.
generate_image_except(conn, mt, ctor, bt) ==
  /\ response = "except"
  /\ ConnectOutcome(conn)
  /\ LET g == get_mqtt_client(conn)
         sends == << mqtt_send_update(g, mt),
                     eb_send_update(eventbridge_client, ctor, bt) >>
     IN /\ events' = events \cup
             EventsOf(request, "failed", << "mqtt", "eventbridge" >>, sends)
        /\ mqtt_client' = g.global
        /\ clients' = g.clients
        /\ eventbridge_client' =
             (eventbridge_client \/ (2 \in Made(sends) /\ ctor = "ok"))
  /\ response' = "error500"
  /\ UNCHANGED << queueVars, monitorVars, producerVars, mockVars, fluxVars,
                  MQTT_BROKER_HOST, request,
                  progressed, collab, job_id >>

\* MqttClient._on_connect on the network thread of a client: CONNACK with
\* return code rc.
on_connect(c, rc) ==
  /\ clients[c].made
  /\ clients[c].loop
  /\ ~clients[c].connected
  /\ clients' = [clients EXCEPT ![c].connected = (rc = 0)]
  /\ UNCHANGED << queueVars, monitorVars, events, producerVars, mockVars,
                  fluxVars, MQTT_BROKER_HOST, mqtt_client, eventbridge_client,
                  request, response, progressed, collab, job_id >>

\* MqttClient._on_disconnect on the network thread of a client.
on_disconnect(c) ==
  /\ clients[c].made
  /\ clients[c].connected
  /\ clients' = [clients EXCEPT ![c].connected = FALSE]
  /\ UNCHANGED << queueVars, monitorVars, events, producerVars, mockVars,
                  fluxVars, MQTT_BROKER_HOST, mqtt_client, eventbridge_client,
                  request, response, progressed, collab, job_id >>

\* Parameters of send_progress_update of eventbridge_client.py, all
\* required: job_id, user_id, progress, message.
SendProgressParams == << "job_id", "user_id", "progress", "message" >>

\* Arguments send_service_event passes to it through run_in_executor:
\* "ai-service-lifecycle", event_type, data.
ServiceEventArgs == << "ai-service-lifecycle", "event_type", "data" >>

\* The event types lifespan passes to send_service_event.
ServiceEventTypes ==
  { "ai_service_starting", "ai_service_ready", "ai_service_error",
    "ai_service_stopping" }

\* await run_in_executor(None, eb_send_progress, *args): the call is bound
\* in the executor thread; with a wrong number of arguments it raises
\* TypeError before the function's own try is entered, and the await
\* raises it in the caller.
run_in_executor(passed, made, ctor, transport) ==
  IF Len(passed) # Len(SendProgressParams)
  THEN [Skipped EXCEPT !.raised = TRUE]
  ELSE eb_send_update(made, ctor, transport)

\* send_service_event: the EventBridge sender is awaited in the executor,
\* then the MQTT client publishes inside a try of its own; the outer
\* except logs whatever was raised before.  Events are logged with job 0
\* (no request).
send_service_event(event_type, conn, mt, ctor, bt) ==
  LET eb == run_in_executor(ServiceEventArgs, eventbridge_client, ctor, bt)
      reached == ~eb.raised
  IN /\ reached => ConnectOutcome(conn)
     /\ LET g == IF reached
                 THEN get_mqtt_client(conn)
                 ELSE [ client |-> 0, global |-> mqtt_client,
                        clients |-> clients ]
            sends == << eb, mqtt_send_update(g, mt) >>
        IN /\ events' = events \cup
                EventsOf(0, event_type, << "eventbridge", "mqtt" >>, sends)
           /\ mqtt_client' = g.global
           /\ clients' = g.clients
           /\ eventbridge_client' =
                (eventbridge_client \/ (reached /\ ctor = "ok"))
     /\ UNCHANGED << queueVars, monitorVars, producerVars, mockVars, fluxVars,
                     MQTT_BROKER_HOST, request, response, progressed,
                     collab, job_id >>

\* ----------------------------------------------------------- host monitor
\* Polling interval of monitor_loop, in seconds.
PollInterval == 30

\* get_instance_state: the metadata found by the probes, the service
\* status and time.time().  time.time() is a float: timestamp is its whole
\* seconds at clock t and timestamp_frac stands for its fraction, which is
\* later at every reading (the ordinal of the reading).
get_instance_state(host, t, reading) ==
  [ instance_id |-> host.instance_id, instance_type |-> host.instance_type,
    public_ip |-> host.public_ip, private_ip |-> host.private_ip,
    service_status |-> host.service_status, timestamp |-> t,
    timestamp_frac |-> reading ]

\* Sleep of monitor_loop after a cycle that raised, in seconds.
BackoffInterval == 60

\* Where a cycle of monitor_loop is left by an exception that the helper
\* running at that point does not catch itself.
CycleFaults ==
  {"none", "get_instance_state", "send_heartbeat", "check_spot_interruption"}

\* send_instance_event with a client: the event handed to
\* MqttClient._publish_message, the only channel it uses, tagged with the
\* cycle it belongs to and with self.monitoring at the time of the call.
InstanceEvent(type, cycle, data, flag) ==
  [ type |-> type, cycle |-> cycle, data |-> data, chan |-> "mqtt",
    monitoring |-> flag ]

\* send_instance_event: nothing is handed on while self.mqtt_client is
\* None.
send_instance_event(sent) == IF monitor_client = 0 THEN << >> ELSE sent

\* current_state != self.last_state
state_differs(current_state) == current_state # last_state

\* A heartbeat that is sent for a healthy service only.
send_heartbeat_if_healthy(cycle, host) ==
  IF host.service_status = "healthy"
  THEN << InstanceEvent("heartbeat", cycle, Absent, monitoring) >>
  ELSE << >>

\* send_heartbeat
send_heartbeat(cycle, host) ==
  << InstanceEvent("heartbeat", cycle, Absent, monitoring) >>

\* A check that reports a notice only the first time it is seen.
check_spot_interruption_once(cycle, notice) ==
  IF /\ notice.status = 200
     /\ \A i \in 1..Len(probes) : probes[i].notice.status # 200
  THEN << InstanceEvent("spot_interruption", cycle, notice.text,
                        monitoring) >>
  ELSE << >>

\* check_spot_interruption: status 200 is a notice, whose text is the
\* action; anything else, and a RequestException, is no notice.
check_spot_interruption(cycle, notice) ==
  IF notice.status = 200
  THEN << InstanceEvent("spot_interruption", cycle, notice.text,
                        monitoring) >>
  ELSE << >>

\* A check that lets the RequestException of its probe leave it.
notice_failure_propagates(notice) == notice.status = 0

\* except requests.exceptions.RequestException: pass
notice_failure(notice) == FALSE

\* A task of monitor_loop that has not returned.
Running(l) == loops[l] \in {"created", "sleeping", "backoff"}

FreeLoop ==
  CHOOSE l \in LoopIds :
    /\ loops[l] = "none"
    /\ \A k \in LoopIds : loops[k] = "none" => l <= k

\* The started event of start_monitoring, sent after the flag is set.
started_event == << InstanceEvent("started", 0, Absent, TRUE) >>

\* start_monitoring: without an MQTT client monitoring stays off; else the
\* flag is set, the started event is sent and a monitor_loop task is
\* created.
start_monitoring(conn) ==
  /\ lifespan = "running"
  /\ ConnectOutcome(conn)
  /\ \E l \in LoopIds : loops[l] = "none"
  /\ LET g == get_mqtt_client(conn)
     IN /\ mqtt_client' = g.global
        /\ clients' = g.clients
        /\ monitor_client' = g.client
        /\ IF g.client = 0
           THEN UNCHANGED << monitoring, loops, monitor_events >>
           ELSE /\ monitoring' = TRUE
                /\ monitor_events' = monitor_events \o started_event
                /\ loops' = [loops EXCEPT ![FreeLoop] = "created"]
  /\ UNCHANGED << queueVars, events, producerVars, mockVars, fluxVars,
                  MQTT_BROKER_HOST, eventbridge_client, request, response,
                  progressed, collab, job_id, last_state, wake, time, probes,
                  lifespan >>

\* stop_monitoring
stop_monitoring ==
  /\ lifespan = "running"
  /\ monitoring' = FALSE
  /\ UNCHANGED << queueVars, events, producerVars, mockVars, fluxVars,
                  channelVars, last_state, monitor_client, loops, wake, time,
                  probes, monitor_events, lifespan >>

\* A shutdown that clears the flag before it sends the stopping event.
stopping_sent_after_clear == FALSE

\* self.monitoring when the shutdown of lifespan calls
\* send_service_stopping: stop_monitoring is called after it.
stopping_sent_with_flag == monitoring

\* The shutdown part of lifespan up to its first suspension:
\* send_service_stopping (sent when the monitor has a client), then
\* stop_monitoring.  cleanup_mqtt follows the service event sent next.
lifespan_shutdown ==
  /\ lifespan = "running"
  /\ lifespan' = "stopped"
  /\ monitor_events' =
       monitor_events
         \o send_instance_event(
              << InstanceEvent("service_stopping", Len(probes), Absent,
                               stopping_sent_with_flag) >>)
  /\ monitoring' = FALSE
  /\ UNCHANGED << queueVars, events, producerVars, mockVars, fluxVars,
                  channelVars, last_state, monitor_client, loops, wake, time,
                  probes >>

\* MqttClient.disconnect: loop_stop(), then client.disconnect(); the
\* connected flag is left to the callbacks.
disconnect(client) == [client EXCEPT !.loop = FALSE]

\* cleanup_mqtt: the global client, when there is one, is disconnected
\* and the global set to None.
cleanup_mqtt ==
  /\ mqtt_client # 0
  /\ clients' = [clients EXCEPT ![mqtt_client] = disconnect(@)]
  /\ mqtt_client' = 0
  /\ UNCHANGED << queueVars, events, producerVars, mockVars, fluxVars,
                  monitorVars, MQTT_BROKER_HOST, eventbridge_client, request,
                  response, progressed, collab, job_id >>

\* InstanceMonitor.send_service_ready: the event is handed to the
\* monitor's client when there is one (get_public_ip, which fills a field
\* of its data, never raises).
send_service_ready ==
  /\ monitor_client # 0
  /\ monitor_events' =
       Append(monitor_events,
              InstanceEvent("service_ready", Len(probes), Absent,
                            monitoring))
  /\ UNCHANGED << queueVars, events, producerVars, mockVars, fluxVars,
                  channelVars, monitoring, last_state, monitor_client, loops,
                  wake, time, probes, lifespan >>

\* A loop whose exception handler is missing: the exception ends the task.
monitor_loop_except_propagates == "done"

\* except Exception in monitor_loop: log, then await asyncio.sleep(60).
monitor_loop_except == "backoff"

\* A loop that tests the flag only when it is created.
while_monitoring_tested_once(l) == loops[l] = "created" => monitoring

\* while self.monitoring
while_monitoring(l) == monitoring

\* The later of two clock values.
Later(a, b) == IF a >= b THEN a ELSE b

\* The event loop runs a monitor_loop task when it is ready: a task just
\* created, a task whose sleep has ended, or, when no task is ready, the
\* task whose sleep ends first (the clock moves on to that time).
Due(l) ==
  \/ loops[l] = "created"
  \/ wake[l] <= time
  \/ /\ \A k \in LoopIds : loops[k] # "created"
     /\ \A k \in LoopIds :
          loops[k] \in {"sleeping", "backoff"} => wake[l] <= wake[k]

\* The clock when the task runs.
wake_up(l) == IF loops[l] = "created" THEN time ELSE Later(time, wake[l])

\* One pass of monitor_loop from the `while` test to the asyncio.sleep that
\* ends it: no coroutine awaited in between suspends.  `raises` is the
\* point where an exception leaves the try block ("none": the cycle runs
\* to asyncio.sleep(30)).  The pass reads the clock as it is when the task
\* runs; the sleep ends PollInterval (BackoffInterval after an exception)
\* later.  `left` is where the cycle is left once the outcome of the
\* notice probe is taken into account.
monitor_loop(l, host, notice, raises) ==
  /\ Running(l)
  /\ Due(l)
  /\ time' = wake_up(l)
  /\ IF ~while_monitoring(l)
     THEN /\ loops' = [loops EXCEPT ![l] = "done"]
          /\ UNCHANGED << last_state, wake, probes, monitor_events >>
     ELSE /\ Len(probes) < MaxCycles
          /\ LET cycle == Len(probes) + 1
                 current_state == get_instance_state(host, wake_up(l), cycle)
                 compared == raises # "get_instance_state"
                 changed == compared /\ state_differs(current_state)
                 left == IF raises = "none" /\ notice_failure(notice)
                         THEN "check_spot_interruption"
                         ELSE raises
             IN /\ probes' = Append(probes, [ host |-> host,
                                              notice |-> notice,
                                              raised |-> raises ])
                /\ last_state' = IF changed THEN current_state ELSE last_state
                /\ monitor_events' =
                     monitor_events \o send_instance_event(
                       (IF changed
                        THEN << InstanceEvent("state_change", cycle,
                                              current_state, monitoring) >>
                        ELSE << >>)
                       \o (IF raises \in {"none", "check_spot_interruption"}
                           THEN send_heartbeat(cycle, host)
                           ELSE << >>)
                       \o (IF left = "none"
                           THEN check_spot_interruption(cycle, notice)
                           ELSE << >>))
                /\ IF left = "none"
                   THEN /\ wake' = [wake EXCEPT
                                      ![l] = wake_up(l) + PollInterval]
                        /\ loops' = [loops EXCEPT ![l] = "sleeping"]
                   ELSE /\ wake' = [wake EXCEPT
                                      ![l] = wake_up(l) + BackoffInterval]
                        /\ loops' = [loops EXCEPT ![l] = monitor_loop_except]
  /\ UNCHANGED << queueVars, events, producerVars, mockVars, fluxVars,
                  channelVars, monitoring, monitor_client, lifespan >>

\* ----------------------------------------------------------- mock service
\* https://picsum.photos/seed/{seed}/{width}/{height} with
\* seed = request.seed or 42: a seed of None or 0 becomes 42.
mock_image_url(req) ==
  [ seed |-> IF req.seed = NoSeed \/ req.seed = 0
             THEN DefaultSeed ELSE req.seed,
    width |-> req.width, height |-> req.height ]

\* POST /generate of simple_main.py: store the job as queued and add
\* process_image to the background tasks of the response.
mock_generate_image(req) ==
  /\ \E j \in MockIds : jobs[j] = NoJob
  /\ LET id == CHOOSE j \in MockIds :
                 /\ jobs[j] = NoJob
                 /\ \A k \in MockIds : jobs[k] = NoJob => j <= k
     IN /\ jobs' = [jobs EXCEPT ![id] =
                      [ status |-> "queued", progress |-> 0,
                        request |-> req, image_url |-> NoUrl,
                        error |-> Absent ]]
        /\ background' = [background EXCEPT ![id] = "scheduled"]
  /\ UNCHANGED seen

\* A process_image that reports full progress and leaves the status.
complete_job_progress_only(job) == [job EXCEPT !.progress = 100]

\* The end of process_image: status completed, progress 100, image_url.
complete_job(job) ==
  [job EXCEPT !.status = "completed", !.progress = 100,
              !.image_url = mock_image_url(job.request)]

\* process_image, from one suspension to the next: processing and 10,
\* asyncio.sleep(3), 50, asyncio.sleep(2), then the job is completed.  No
\* statement of its try block raises an Exception.
process_image(id) ==
  /\ background[id] \in {"scheduled", "sleep3", "sleep2"}
  /\ CASE background[id] = "scheduled" ->
            /\ jobs' = [jobs EXCEPT ![id].status = "processing",
                                    ![id].progress = 10]
            /\ background' = [background EXCEPT ![id] = "sleep3"]
       [] background[id] = "sleep3" ->
            /\ jobs' = [jobs EXCEPT ![id].progress = 50]
            /\ background' = [background EXCEPT ![id] = "sleep2"]
       [] OTHER ->
            /\ jobs' = [jobs EXCEPT ![id] = complete_job(@)]
            /\ background' = [background EXCEPT ![id] = "done"]
  /\ UNCHANGED seen

\* GET /job/{job_id}: 404 for an unknown id, else the job's status,
\* progress, image_url and error.
mock_get_job_status(id) ==
  IF jobs[id] = NoJob THEN NoJob
  ELSE [jobs[id] EXCEPT !.request = NoRequest]

\* The client of test_generate polls a job it has submitted until the
\* answer is completed or failed.
poll(id) ==
  /\ jobs[id] # NoJob
  /\ seen[id].status \notin Terminal
  /\ seen' = [seen EXCEPT ![id] = mock_get_job_status(id)]
  /\ UNCHANGED << jobs, background >>

\* ------------------------------------------------------------ FluxService
\* Field(default=50, ge=10, le=100) of GenerationRequest.
MinInferenceSteps == 10

InferenceSteps == MinInferenceSteps..MaxInferenceSteps

\* A step callback that forgets to scale the step to the 20..90 range.
step_progress_unscaled(step, num_inference_steps) == 20 + step * 70

\* 20 + int((step / num_inference_steps) * 70): the float product is
\* truncated; for step 47 of 70 it is 46.99999999999999, one below the
\* exact quotient.
step_progress(step, num_inference_steps) ==
  20 + (IF step = 47 /\ num_inference_steps = 70 THEN 46
        ELSE (step * 70) \div num_inference_steps)

\* if progress_callback: progress_callback(progress, message)
report(progress) ==
  IF generation.callback THEN Append(percentages, progress) ELSE percentages

\* The except branch of generate_image: the result is failed with str(e).
generation_failed(text) ==
  [generation EXCEPT !.pc = "done", !.status = "failed", !.error = text]

\* load_model: sets the pipeline and is_loaded, or returns False.
load_model(ok) ==
  /\ ~is_loaded
  /\ generation.pc \in {"idle", "done"}
  /\ is_loaded' = ok
  /\ UNCHANGED << queueVars, events, producerVars, mockVars, channelVars,
                  monitorVars, flux_service, generation, percentages >>

\* generate_image up to its first progress report: ValueError without a
\* loaded model, else the request is read and 10 is reported.
flux_setup(num_inference_steps, callback) ==
  /\ generation.pc \in {"idle", "done"}
  /\ IF ~is_loaded
     THEN /\ generation' = [Idle EXCEPT !.pc = "done", !.status = "raise",
                                        !.error = "Model not loaded"]
          /\ percentages' = << >>
     ELSE /\ generation' =
               [Idle EXCEPT !.pc = "setup",
                            !.num_inference_steps = num_inference_steps,
                            !.callback = callback]
          /\ percentages' = IF callback THEN << 10 >> ELSE << >>
  /\ UNCHANGED << queueVars, events, producerVars, mockVars, channelVars,
                  monitorVars, flux_service, is_loaded >>

\* The seed is set and 20 is reported; the pipeline is called.
flux_start ==
  /\ generation.pc = "setup"
  /\ percentages' = report(20)
  /\ generation' = [generation EXCEPT !.pc = "pipeline"]
  /\ UNCHANGED << queueVars, events, producerVars, mockVars, channelVars,
                  monitorVars, flux_service, is_loaded >>

\* The pipeline ends a denoising step and calls callback_on_step_end with
\* its index, 0 for the first step.
step_callback ==
  /\ generation.pc = "pipeline"
  /\ generation.step < generation.num_inference_steps
  /\ percentages' =
       report(step_progress(generation.step, generation.num_inference_steps))
  /\ generation' = [generation EXCEPT !.step = @ + 1]
  /\ UNCHANGED << queueVars, events, producerVars, mockVars, channelVars,
                  monitorVars, flux_service, is_loaded >>

\* The pipeline raises: the outer except returns a failed result.
pipeline_raises ==
  /\ generation.pc = "pipeline"
  /\ generation' = generation_failed("CUDA out of memory")
  /\ UNCHANGED << queueVars, events, producerVars, mockVars, channelVars,
                  monitorVars, flux_service, is_loaded, percentages >>

\* The pipeline returns the image after its last step; 95 is reported.
pipeline_returns ==
  /\ generation.pc = "pipeline"
  /\ generation.step = generation.num_inference_steps
  /\ percentages' = report(95)
  /\ generation' = [generation EXCEPT !.pc = "convert"]
  /\ UNCHANGED << queueVars, events, producerVars, mockVars, channelVars,
                  monitorVars, flux_service, is_loaded >>

\* The image is saved as PNG and encoded: 100 is reported and the result
\* is completed; when that raises, 95 is reported again and the exception
\* reaches the outer except.
convert_image(ok) ==
  /\ generation.pc = "convert"
  /\ IF ok
     THEN /\ percentages' = report(100)
          /\ generation' = [generation EXCEPT !.pc = "done",
                                               !.status = "completed",
                                               !.image_data = "iVBOR"]
     ELSE /\ percentages' = report(95)
          /\ generation' = generation_failed("cannot write mode")
  /\ UNCHANGED << queueVars, events, producerVars, mockVars, channelVars,
                  monitorVars, flux_service, is_loaded >>

\* The clock advances.
clock_tick ==
  /\ now < MaxClock
  /\ now' = now + 1
  /\ UNCHANGED << queue, store, nextId, added, processing, worker_task, tasks,
                  stopAwait, faults, popLog, startedLog, statusLog, calls,
                  collabError, stopCalled, stopJob, events, expired >>

\* add_job called outside the worker's event loop (another thread or
\* process sharing the Redis server): its three Redis calls are separate
\* steps.  First step: build the job, whose created_at and updated_at are
\* read from the clock here, and LPUSH it.
add_job_lpush(job_data) ==
  /\ producer.pc = "idle"
  /\ nextId < MaxJobs
  /\ nextId' = nextId + 1
  /\ queue' = lpush(queue, [id |-> nextId + 1, data |-> job_data])
  /\ producer' = [ pc |-> "pushed", job |-> nextId + 1, data |-> job_data,
                   at |-> now ]
  /\ UNCHANGED << store, added, processing, worker_task, tasks, stopAwait,
                  faults, now, popLog, startedLog, statusLog, calls,
                  collabError, stopCalled, stopJob, events, expired >>

\* Second step: HSET job:{id} with status queued, the timestamps of the
\* job built in the first step, and data.
add_job_hset ==
  /\ producer.pc = "pushed"
  /\ store' = [store EXCEPT ![producer.job] =
                 hset(@, [ status |-> "queued", created_at |-> producer.at,
                           updated_at |-> producer.at,
                           data |-> producer.data ])]
  /\ statusLog' = [statusLog EXCEPT ![producer.job] = Append(@, "queued")]
  /\ producer' = [producer EXCEPT !.pc = "written"]
  /\ UNCHANGED << queue, nextId, added, processing, worker_task, tasks,
                  stopAwait, faults, now, popLog, startedLog, calls,
                  collabError, stopCalled, stopJob, events, expired >>

\* Third step: EXPIRE job:{id} 86400 and return the id.
add_job_expire ==
  /\ producer.pc = "written"
  /\ store' = [store EXCEPT ![producer.job] = expire(@, RetentionTTL)]
  /\ added' = added \cup {producer.job}
  /\ producer' = [pc |-> "idle", job |-> 0, data |-> Absent, at |-> NoTime]
  /\ UNCHANGED << queue, nextId, processing, worker_task, tasks, stopAwait,
                  faults, now, popLog, startedLog, statusLog, calls,
                  collabError, stopCalled, stopJob, events, expired >>

AddJob ==
  /\ \E d \in Payloads, r1, r2, r3 \in WriteResults : add_job(d, r1, r2, r3)
  /\ UNCHANGED outsideQueue
StartWorker ==
  /\ start_worker
  /\ UNCHANGED outsideQueue
StopWorkerCall ==
  /\ stop_worker_call
  /\ UNCHANGED outsideQueue
StopWorkerReturn ==
  /\ stop_worker_return
  /\ UNCHANGED outsideQueue
WorkerCancelled ==
  /\ \E t \in TaskIds : worker_cancelled(t)
  /\ UNCHANGED outsideQueue
WorkerIterate ==
  /\ \E t \in TaskIds, pop \in PopResults : worker_iterate(t, pop)
  /\ UNCHANGED outsideQueue
ProcessJob ==
  /\ \E t \in TaskIds, w \in WriteResults : process_job(t, w)
  /\ UNCHANGED outsideQueue
ProcessJobExcept ==
  /\ \E t \in TaskIds, w \in WriteResults : process_job_except(t, w)
  /\ UNCHANGED outsideQueue
WorkerResume ==
  /\ \E t \in TaskIds, result \in Outcomes, w \in WriteResults :
       worker_resume(t, result, w)
  /\ UNCHANGED outsideQueue
KeyExpires ==
  /\ \E j \in JobIds : key_expires(j)
  /\ UNCHANGED outsideQueue

Next ==
  \/ AddJob
  \/ StartWorker
  \/ StopWorkerCall
  \/ StopWorkerReturn
  \/ WorkerCancelled
  \/ WorkerIterate
  \/ ProcessJob
  \/ ProcessJobExcept
  \/ WorkerResume
  \/ KeyExpires

Spec == Init /\ [][Next]_vars

\* The queue with the passing of time.
ClockTick ==
  /\ clock_tick
  /\ UNCHANGED outsideQueue

NextTimed ==
  \/ Next
  \/ ClockTick

SpecTimed == Init /\ [][NextTimed]_vars

\* The /generate endpoint of main.py, which does not use the queue, with
\* the channel clients and the network thread of the MQTT clients.
LifespanLoadModel ==
  /\ ~MqttWaiting
  /\ \E ok \in BOOLEAN : lifespan_load_model(ok)
GenerateImageCall ==
  /\ ~MqttWaiting
  /\ \E id \in JobIdInputs, loads \in BOOLEAN : generate_image_call(id, loads)

\* get_mqtt_client called by the handler of POST /generate (through the
\* senders of mqtt_client.py) finds no global client and waits in
\* connect().
ConnectInGenerate ==
  /\ response \in {"running", "except"}
  /\ connect
ProgressCallback ==
  \E conn \in ConnectResults, mt \in MqttTransport, ctor \in CtorResults,
     bt \in BusTransport, ht \in HttpTransport :
    progress_callback(conn, mt, ctor, bt, ht)
GenerateImage ==
  \E result \in Outcomes, conn \in ConnectResults, mt \in MqttTransport,
     ctor \in CtorResults, bt \in BusTransport :
    generate_image(result, conn, mt, ctor, bt)
GenerateImageExcept ==
  \E conn \in ConnectResults, mt \in MqttTransport, ctor \in CtorResults,
     bt \in BusTransport :
    generate_image_except(conn, mt, ctor, bt)
OnConnect == \E c \in ClientIds, rc \in {0, 5} : on_connect(c, rc)
OnDisconnect == \E c \in ClientIds : on_disconnect(c)

NextDirect ==
  \/ LifespanLoadModel
  \/ GenerateImageCall
  \/ ConnectInGenerate
  \/ ProgressCallback
  \/ GenerateImage
  \/ GenerateImageExcept
  \/ OnConnect
  \/ OnDisconnect

SpecDirect == InitEnv /\ [][NextDirect]_vars

\* The mock service while it keeps running: the event loop runs every
\* background task, each sleep ends, and the client keeps polling.
notMock ==
  << queueVars, events, producerVars, channelVars, monitorVars, fluxVars >>
MockGenerateImage ==
  /\ \E req \in MockRequests : mock_generate_image(req)
  /\ UNCHANGED notMock
ProcessImage ==
  /\ \E j \in MockIds : process_image(j)
  /\ UNCHANGED notMock
Poll ==
  /\ \E j \in MockIds : poll(j)
  /\ UNCHANGED notMock

NextMock ==
  \/ MockGenerateImage
  \/ ProcessImage
  \/ Poll

SpecMock ==
  /\ Init
  /\ [][NextMock]_vars
  /\ WF_vars(ProcessImage)
  /\ WF_vars(Poll)

\* The queue with a reachable store, a worker that is never stopped and a
\* collaborator whose calls all end: no Redis call raises, stop_worker is
\* not called, and the event loop keeps scheduling the worker task.
AddJobLive ==
  /\ \E d \in Payloads : add_job(d, RedisOk, RedisOk, RedisOk)
  /\ UNCHANGED outsideQueue
WorkerIterateLive ==
  /\ \E t \in TaskIds, pop \in {RedisOk, RedisTimeout} :
       worker_iterate(t, pop)
  /\ UNCHANGED outsideQueue
ProcessJobLive ==
  /\ \E t \in TaskIds : process_job(t, RedisOk)
  /\ UNCHANGED outsideQueue
ProcessJobExceptLive ==
  /\ \E t \in TaskIds : process_job_except(t, RedisOk)
  /\ UNCHANGED outsideQueue
WorkerResumeLive ==
  /\ \E t \in TaskIds, result \in Outcomes : worker_resume(t, result, RedisOk)
  /\ UNCHANGED outsideQueue

NextLive ==
  \/ AddJobLive
  \/ StartWorker
  \/ WorkerIterateLive
  \/ ProcessJobLive
  \/ ProcessJobExceptLive
  \/ WorkerResumeLive
  \/ KeyExpires
  \/ ClockTick

SpecLive ==
  /\ Init
  /\ [][NextLive]_vars
  /\ WF_vars(WorkerIterateLive)
  /\ WF_vars(ProcessJobLive)
  /\ WF_vars(ProcessJobExceptLive)
  /\ WF_vars(WorkerResumeLive)

\* The queue with producers outside the worker's event loop: add_job's
\* Redis calls interleave with the steps of the worker and the passing of
\* time.  No Redis call raises and no key expires.
AddJobLpush ==
  /\ \E d \in Payloads : add_job_lpush(d)
  /\ UNCHANGED << channelVars, monitorVars, fluxVars, mockVars >>
AddJobHset ==
  /\ add_job_hset
  /\ UNCHANGED << channelVars, monitorVars, fluxVars, mockVars >>
AddJobExpire ==
  /\ add_job_expire
  /\ UNCHANGED << channelVars, monitorVars, fluxVars, mockVars >>

NextProducer ==
  \/ AddJobLpush
  \/ AddJobHset
  \/ AddJobExpire
  \/ StartWorker
  \/ WorkerIterateLive
  \/ ProcessJobLive
  \/ ProcessJobExceptLive
  \/ WorkerResumeLive
  \/ ClockTick

SpecProducer == Init /\ [][NextProducer]_vars

\* The host monitor: start_monitoring and stop_monitoring called in any
\* order, the monitor_loop tasks, any probe results.
StartMonitoring == \E conn \in ConnectResults : start_monitoring(conn)
StopMonitoring ==
  /\ ~MqttWaiting
  /\ stop_monitoring
LifespanShutdown ==
  /\ ~MqttWaiting
  /\ lifespan_shutdown

\* get_mqtt_client called by start_monitoring finds no global client and
\* waits in connect().
ConnectInStartMonitoring ==
  /\ lifespan = "running"
  /\ \E l \in LoopIds : loops[l] = "none"
  /\ connect

\* The network thread of the client start_monitoring waits for.
OnConnectInWait ==
  /\ MqttWaiting
  /\ \E rc \in {0, 5} : on_connect(mqtt_client, rc)
OnDisconnectInWait ==
  /\ MqttWaiting
  /\ on_disconnect(mqtt_client)

\* cleanup_mqtt() as the last step of the shutdown of lifespan.
CleanupMqtt ==
  /\ ~MqttWaiting
  /\ lifespan = "stopped"
  /\ cleanup_mqtt

\* send_service_ready() as lifespan calls it: once, when load_model
\* returned True.
SendServiceReady ==
  /\ ~MqttWaiting
  /\ lifespan = "running"
  /\ flux_service
  /\ is_loaded
  /\ \A i \in 1..Len(monitor_events) :
       monitor_events[i].type # "service_ready"
  /\ send_service_ready

MonitorLoop ==
  /\ ~MqttWaiting
  /\ \E l \in LoopIds, host \in HostProbes, notice \in NoticeProbes :
       monitor_loop(l, host, notice, "none")

NextMonitor ==
  \/ ConnectInStartMonitoring
  \/ OnConnectInWait
  \/ OnDisconnectInWait
  \/ StartMonitoring
  \/ StopMonitoring
  \/ MonitorLoop

SpecMonitor == InitEnv /\ [][NextMonitor]_vars

\* The host monitor as main.py runs it: lifespan starts it and shuts it
\* down, and a cycle can be left by an exception.  The probes find a
\* healthy service, with or without a notice; the notice is not reported
\* by a pass that raises, so one probe result stands for all.
HealthyHosts == { h \in HostProbes : h.service_status = "healthy" }

MonitorLoopRuns ==
  /\ ~MqttWaiting
  /\ \E l \in LoopIds, host \in HealthyHosts,
        notice \in { n \in NoticeProbes : n.status # 0 } :
       monitor_loop(l, host, notice, "none")

MonitorLoopRaises ==
  /\ ~MqttWaiting
  /\ \E l \in LoopIds, host \in HealthyHosts,
        raises \in CycleFaults \ {"none"} :
       monitor_loop(l, host, [status |-> 0, text |-> Absent], raises)

NextLifespan ==
  \/ ConnectInStartMonitoring
  \/ OnConnectInWait
  \/ OnDisconnectInWait
  \/ StartMonitoring
  \/ LifespanLoadModel
  \/ SendServiceReady
  \/ LifespanShutdown
  \/ CleanupMqtt
  \/ MonitorLoopRuns
  \/ MonitorLoopRaises

SpecLifespan == InitEnv /\ [][NextLifespan]_vars

\* The service lifecycle events of lifespan: the monitor is started (which
\* creates the MQTT client), service events are sent, the model is loaded
\* and the monitor told so, the service shuts down and drops the client,
\* and the network thread of a client reports connections and
\* disconnections.
SendServiceEvent ==
  /\ ~MqttWaiting
  /\ \E event_type \in ServiceEventTypes, conn \in ConnectResults,
        mt \in MqttTransport, ctor \in CtorResults, bt \in BusTransport :
       send_service_event(event_type, conn, mt, ctor, bt)

NextService ==
  \/ ConnectInStartMonitoring
  \/ StartMonitoring
  \/ SendServiceEvent
  \/ LifespanLoadModel
  \/ SendServiceReady
  \/ LifespanShutdown
  \/ CleanupMqtt
  \/ OnConnect
  \/ OnDisconnect

SpecService == InitEnv /\ [][NextService]_vars

\* FluxService: the model is loaded, images are generated one at a time,
\* with or without a progress callback.
LoadModel == \E ok \in BOOLEAN : load_model(ok)
FluxSetup ==
  \E n \in InferenceSteps, callback \in BOOLEAN : flux_setup(n, callback)
FluxStart == flux_start
StepCallback == step_callback
PipelineRaises == pipeline_raises
PipelineReturns == pipeline_returns
ConvertImage == \E ok \in BOOLEAN : convert_image(ok)

NextFlux ==
  \/ LoadModel
  \/ FluxSetup
  \/ FluxStart
  \/ StepCallback
  \/ PipelineRaises
  \/ PipelineReturns
  \/ ConvertImage

SpecFlux == Init /\ [][NextFlux]_vars

\* ------------------------------------------------------------------ claims
IsPrefix(s, t) ==
  /\ Len(s) <= Len(t)
  /\ \A i \in 1..Len(s) : s[i] = t[i]

Increasing(s) == \A i, k \in 1..Len(s) : i < k => s[i] < s[k]

LastStatus(j) ==
  IF statusLog[j] = << >> THEN Absent ELSE statusLog[j][Len(statusLog[j])]

\* C1: jobs are popped and marked processing in the order add_job pushed
\* them: pops come in increasing id order, no job still on the list is
\* older than a popped one, and the jobs marked processing are in that order.
C1_Fifo ==
  /\ Increasing(popLog)
  /\ \A i \in 1..Len(popLog), k \in 1..Len(queue) : popLog[i] < queue[k].id
  /\ Increasing(startedLog)

C1_Witness ==
  /\ Len(startedLog) >= 2
  /\ \E t \in TaskIds : Alive(t) /\ tasks[t].pc = "gen"

\* C2: for every job, the status values written to its hash, each of which
\* get_job_status returns until the next write, form a prefix of queued,
\* processing, completed or of queued, processing, failed: no other
\* transition is observable.
C2_ChainOnly ==
  \A j \in JobIds :
    \/ IsPrefix(statusLog[j], << "queued", "processing", "completed" >>)
    \/ IsPrefix(statusLog[j], << "queued", "processing", "failed" >>)

\* C3: at most one call of the generation collaborator is in flight.
C3_SingleCall ==
  Cardinality({ t \in TaskIds : Alive(t) /\ tasks[t].pc = "gen" }) <= 1

C3_Witness ==
  /\ \E t \in TaskIds : Alive(t) /\ tasks[t].pc = "gen"
  /\ \E t \in TaskIds : tasks[t].state = "cancelled"
  /\ queue # << >>

InHand(j) == \E t \in TaskIds : Alive(t) /\ tasks[t].cur = j

\* C5: once the collaborator has failed on a job and process_job has
\* returned, the job's record ends with status failed and the
\* collaborator's error text.
C5_FailureRecorded ==
  \A j \in JobIds :
    (collabError[j] # Absent /\ ~InHand(j) /\ store[j].exists) =>
      /\ store[j].status = "failed"
      /\ store[j].error = collabError[j]

\* C6: for every job the worker has recorded as completed or failed, the
\* matching terminal event has been handed to every channel.
C6_TerminalEventDispatched ==
  \A j \in JobIds : \A c \in TerminalChannels :
    LastStatus(j) \in Terminal =>
      \E e \in events :
        e.job = j /\ e.kind = LastStatus(j) /\ e.chan = c

\* C7: the collaborator is called at most once per job, and a job whose
\* status has been completed or failed is not on the pending list.
C7_NoRetry ==
  \A j \in JobIds :
    /\ calls[j] <= 1
    /\ LastStatus(j) \in Terminal =>
         \A k \in 1..Len(queue) : queue[k].id # j

C7_Witness ==
  \E j \in JobIds :
    /\ calls[j] = 1
    /\ LastStatus(j) = "failed"
    /\ \E t \in TaskIds : Alive(t) /\ tasks[t].pc = "poll"

\* C8: while stop_worker has not been called no worker task has ended.
C8_LoopSurvives ==
  ~stopCalled => \A t \in TaskIds : tasks[t].state \in {"none", "alive"}

C8_Witness ==
  /\ ~stopCalled
  /\ faults > 0
  /\ \E t \in TaskIds : Alive(t) /\ tasks[t].pc = "sleep"

\* C9: when stop_worker has returned, the job whose collaborator call was
\* in flight at the call has reached completed or failed.
C9_InFlightFinishes ==
  (stopJob # 0 /\ stopAwait = 0) => LastStatus(stopJob) \in Terminal

\* C10: with the worker running, the store reachable and every collaborator
\* call ending, the status completed or failed is eventually written to the
\* record of every job add_job returned (the record may expire afterwards).
C10_EventuallyTerminal ==
  \A j \in JobIds :
    (j \in added /\ TaskRunning) ~> (LastStatus(j) \in Terminal)

C10_Witness ==
  /\ TaskRunning
  /\ added = JobIds
  /\ \A j \in JobIds : store[j].exists /\ store[j].status \in Terminal

\* C11: when add_job has returned for a job and the worker has written a
\* terminal status for it, whatever the interleaving of add_job's Redis
\* calls with the worker's, the job's record has that terminal status
\* together with the created_at and data written by add_job, and a job that
\* add_job returned is on the pending list or has been popped.
C11_ConcurrentAddSafe ==
  \A j \in added :
    /\ (\E k \in 1..Len(queue) : queue[k].id = j)
         \/ (\E i \in 1..Len(popLog) : popLog[i] = j)
    /\ (\E i \in 1..Len(statusLog[j]) : statusLog[j][i] \in Terminal) =>
         /\ store[j].status \in Terminal
         /\ store[j].created_at # NoTime
         /\ store[j].data # Absent

\* C12: a record that has expired is not brought back by update_job_status:
\* get_job_status keeps returning None for its id.
C12_ExpiredStaysGone ==
  \A j \in expired : ~get_job_status(j).found

\* C13: every job record in the store carries the 24-hour expiry.
C13_EveryRecordExpires ==
  \A j \in JobIds : store[j].exists => store[j].ttl = RetentionTTL

Called(kind, chan) == \E e \in events : e.kind = kind /\ e.chan = chan

Responded == response \in {"completed", "failed", "error500"}

\* C14: whatever the channels' sends do, a progress event of POST /generate
\* is handed to all three channels and the terminal event to MQTT and
\* EventBridge, and the request is answered with the collaborator's
\* outcome.
C14_FanOutIsolated ==
  /\ progressed > 0 => \A c \in Channels : Called("progress", c)
  /\ Responded =>
       /\ \A c \in TerminalChannels : Called(TerminalKind(collab), c)
       /\ response = ResponseOf(collab, job_id)

C14_Witness ==
  /\ response = "completed"
  /\ \E e \in events :
       e.kind = "progress" /\ e.chan = "mqtt" /\ e.transport = "raise"
  /\ \E e \in events :
       e.kind = "progress" /\ e.chan = "eventbridge" /\ e.result = "true"
  /\ \E e \in events :
       e.kind = "progress" /\ e.chan = "http" /\ e.transport = "success"
  /\ \E e \in events :
       e.kind = "completed" /\ e.chan = "mqtt" /\ e.result = "true"
  /\ \E e \in events :
       e.kind = "completed" /\ e.chan = "eventbridge"
         /\ e.transport = "failed_entry"

\* No channel works: MQTT_BROKER_HOST is unset and every transport that was
\* called raised.
NoChannel ==
  /\ ~MQTT_BROKER_HOST
  /\ \A e \in events : e.transport \in {"unused", "raise"}

\* C15: with no channel working, no send of a lifecycle event raises and
\* the request is answered with the collaborator's outcome.
C15_NoChannelNoRaise ==
  NoChannel =>
    /\ \A e \in events : ~e.raised
    /\ Responded => response = ResponseOf(collab, job_id)

C15_Witness ==
  /\ NoChannel
  /\ response = "completed"
  /\ Cardinality(events) = 5
  /\ \E e \in events : e.chan = "mqtt" /\ e.result = "none"
  /\ \E e \in events : e.chan = "eventbridge" /\ e.transport = "raise"

\* C16: a send of the MQTT or the EventBridge client returns a boolean for
\* every outcome of the transport, and False unless the transport
\* succeeded.
C16_SendReturnsBoolean ==
  \A e \in events :
    (e.chan \in {"mqtt", "eventbridge"} /\ e.result # "none") =>
      /\ e.result \in {"true", "false"}
      /\ e.transport # "success" => e.result = "false"

C16_Witness ==
  /\ \E e \in events :
       e.chan = "mqtt" /\ e.transport = "rc_error" /\ e.result = "false"
  /\ \E e \in events :
       e.chan = "mqtt" /\ e.transport = "raise" /\ e.result = "false"
  /\ \E e \in events :
       e.chan = "eventbridge" /\ e.transport = "failed_entry"
         /\ e.result = "false"
  /\ \E e \in events :
       e.chan = "eventbridge" /\ e.transport = "raise" /\ e.result = "false"

\* C17: a send on an MQTT client whose connected flag is False returns
\* False and client.publish is not called; and a connection that comes
\* back hands nothing to the transport.
C17_DisconnectedSendDropped ==
  /\ [](\A e \in events :
          (e.chan = "mqtt" /\ e.result # "none" /\ ~e.connected) =>
            (e.result = "false" /\ ~e.handed))
  /\ [][(\E c \in ClientIds :
            clients[c].made /\ ~clients[c].connected /\ clients'[c].connected)
          => events' = events]_vars

C17_Witness ==
  /\ mqtt_client # 0
  /\ clients[mqtt_client].connected
  /\ \E e \in events :
       /\ e.chan = "mqtt" /\ e.kind = "progress"
       /\ e.connected /\ e.handed /\ e.result = "true"
  /\ \E e \in events :
       /\ e.chan = "mqtt" /\ e.kind = "completed"
       /\ ~e.connected /\ ~e.handed /\ e.result = "false"

EmittedIn(cycle, type) ==
  { i \in 1..Len(monitor_events) :
      monitor_events[i].cycle = cycle /\ monitor_events[i].type = type }

\* C18: of two consecutive monitor cycles whose probes found the same host
\* state, the second emits no state_change event.
C18_NoRepeatedStateChange ==
  \A i \in 1..(Len(probes) - 1) :
    probes[i].host = probes[i + 1].host =>
      EmittedIn(i + 1, "state_change") = {}

\* C19: every monitor cycle whose probe finds an interruption notice emits
\* a spot_interruption event with the notice's action, also when earlier
\* cycles found the notice.
C19_NoticeEmittedEachCycle ==
  \A i \in 1..Len(probes) :
    probes[i].notice.status = 200 =>
      \E k \in EmittedIn(i, "spot_interruption") :
        monitor_events[k].data = probes[i].notice.text

C19_Witness ==
  /\ Len(probes) >= 2
  /\ probes[1].notice.status = 200
  /\ probes[2].notice.status = 200
  /\ EmittedIn(1, "spot_interruption") # {}
  /\ EmittedIn(2, "spot_interruption") # {}

\* C20: every monitor cycle emits exactly one heartbeat event, whatever the
\* probes found.
C20_HeartbeatEachCycle ==
  \A i \in 1..Len(probes) : Cardinality(EmittedIn(i, "heartbeat")) = 1

C20_Witness ==
  /\ Len(probes) >= 2
  /\ probes[1].host.service_status = "unavailable"
  /\ probes[2].notice.status = 200
  /\ EmittedIn(1, "heartbeat") # {}
  /\ EmittedIn(2, "heartbeat") # {}

\* C21: a monitor_loop task ends only in a pass that finds the flag
\* cleared (which stop_monitoring alone does); a pass left by an exception
\* keeps the task, which sleeps BackoffInterval, and the step a task takes
\* out of that sleep while the flag is set is the next cycle.
C21_LoopEndsOnlyOnStop ==
  [][ /\ \A l \in LoopIds :
           Running(l) /\ loops'[l] = "done" => ~monitoring
      /\ ( /\ Len(probes') > Len(probes)
           /\ probes'[Len(probes')].raised # "none" )
         => /\ \E l \in LoopIds :
                 /\ loops'[l] = "backoff"
                 /\ wake'[l] = time' + BackoffInterval
            /\ \A l \in LoopIds :
                 Running(l) => loops'[l] \in {loops[l], "backoff"}
      /\ \A l \in LoopIds :
           loops[l] = "backoff" /\ loops'[l] # "backoff" /\ monitoring
             => Len(probes') = Len(probes) + 1 ]_vars

C21_Witness ==
  /\ monitoring
  /\ Len(probes) >= 2
  /\ probes[1].raised # "none"
  /\ probes[2].raised = "none"
  /\ Cardinality({ l \in LoopIds : loops[l] # "none" }) = 1
  /\ \E l \in LoopIds : loops[l] = "sleeping"

\* C22: at most one monitor_loop task has not returned, whatever the
\* sequence of start_monitoring and stop_monitoring calls.
C22_SingleMonitorLoop ==
  Cardinality({ l \in LoopIds : Running(l) }) <= 1

\* C24: every event of the host monitor is handed to every channel of the
\* fan-out of the job lifecycle events, not to MQTT alone.
C24_MonitorFanOut ==
  \A i \in 1..Len(monitor_events) :
    \A c \in TerminalChannels :
      \E k \in 1..Len(monitor_events) :
        /\ monitor_events[k].type = monitor_events[i].type
        /\ monitor_events[k].cycle = monitor_events[i].cycle
        /\ monitor_events[k].chan = c

CycleTypes == {"heartbeat", "state_change", "spot_interruption"}

IsCycleEvent(e) == e.type \in CycleTypes

\* C25: a started event precedes every heartbeat, state_change and
\* spot_interruption event, and the shutdown of lifespan sends the
\* service_stopping event with the flag as it was, clearing it afterwards.
C25_StartedFirstStoppingBeforeClear ==
  /\ [](\A i \in 1..Len(monitor_events) :
          IsCycleEvent(monitor_events[i]) =>
            \E k \in 1..(i - 1) : monitor_events[k].type = "started")
  /\ [][ \A i \in (Len(monitor_events) + 1)..Len(monitor_events') :
           monitor_events'[i].type = "service_stopping" =>
             /\ monitor_events'[i].monitoring = monitoring
             /\ ~monitoring' ]_vars

C25_Witness ==
  /\ ~monitoring
  /\ Len(monitor_events) >= 3
  /\ monitor_events[1].type = "started"
  /\ monitor_events[2].type \in CycleTypes
  /\ monitor_events[Len(monitor_events)].type = "service_stopping"
  /\ monitor_events[Len(monitor_events)].monitoring

\* C27: while the flag stays cleared no heartbeat, state_change or
\* spot_interruption event is emitted, and the step a monitor_loop task
\* takes ends it.
C27_StoppedLoopExits ==
  [][ (~monitoring /\ ~monitoring') =>
        /\ SelectSeq(monitor_events', IsCycleEvent)
             = SelectSeq(monitor_events, IsCycleEvent)
        /\ \A l \in LoopIds : loops'[l] # loops[l] => loops'[l] = "done" ]_vars

C27_Witness ==
  /\ ~monitoring
  /\ \E i \in 1..Len(monitor_events) : monitor_events[i].type = "heartbeat"
  /\ \E l \in LoopIds : loops[l] = "done"
  /\ \A l \in LoopIds : ~Running(l)

\* C23: at most one worker task is alive, whatever the sequence of
\* start_worker and stop_worker calls.
C23_SingleWorkerTask ==
  Cardinality({ t \in TaskIds : Alive(t) }) <= 1

C23_Witness ==
  /\ TaskRunning
  /\ tasks[worker_task].pc = "gen"
  /\ \E t \in TaskIds : tasks[t].state \in {"finished", "cancelled"}

\* C26: once stop_worker has returned and until start_worker creates a
\* task again, no worker task is alive; and a job is popped only by an
\* alive task while the flag is set.
C26_StoppedWorkerPopsNothing ==
  /\ []((stopCalled /\ stopAwait = 0 /\ ~processing)
          => \A t \in TaskIds : ~Alive(t))
  /\ [][ Len(popLog') > Len(popLog)
           => processing /\ \E t \in TaskIds : Alive(t) ]_vars

C26_Witness ==
  /\ stopCalled
  /\ stopAwait = 0
  /\ ~processing
  /\ \E t \in TaskIds : tasks[t].state = "cancelled"
  /\ Len(popLog) >= 1
  /\ queue # << >>

\* C28: a step in which add_job returns adds exactly one id to those
\* returned so far, and after it the hash of that id exists with status
\* queued and the 24-hour expiry, and the pending list holds the job once.
C28_AddJobPostcondition ==
  [][ added' # added =>
        /\ Cardinality(added' \ added) = 1
        /\ added \subseteq added'
        /\ \A j \in added' \ added :
             /\ j \notin 1..nextId
             /\ store'[j].exists
             /\ store'[j].status = "queued"
             /\ store'[j].ttl = RetentionTTL
             /\ Cardinality({ i \in 1..Len(queue') : queue'[i].id = j }) = 1
     ]_vars

C28_Witness ==
  /\ Cardinality(added) = 2
  /\ Len(queue) = 2
  /\ queue[1].id # queue[2].id
  /\ \A j \in added :
       /\ store[j].status = "queued"
       /\ store[j].ttl = RetentionTTL
       /\ \E i \in 1..Len(queue) : queue[i].id = j

\* C29: every existing job hash has a created_at and an updated_at that is
\* not earlier, and no write makes the updated_at of a hash earlier.
C29_UpdatedNotBeforeCreated ==
  /\ [](\A j \in JobIds :
          store[j].exists =>
            /\ store[j].created_at # NoTime
            /\ store[j].updated_at >= store[j].created_at)
  /\ [][ \A j \in JobIds :
           store[j].exists /\ store'[j].exists =>
             store'[j].updated_at >= store[j].updated_at ]_vars

\* C30: when generate_image with a progress callback returns completed, no
\* reported percentage is lower than an earlier one, each is within 0..100,
\* the last one is 100, and the result carries non-empty image data.
C30_ProgressIncreasesTo100 ==
  (generation.status = "completed" /\ generation.callback) =>
    /\ \A i, k \in 1..Len(percentages) :
         i < k => percentages[i] <= percentages[k]
    /\ \A i \in 1..Len(percentages) : percentages[i] \in 0..100
    /\ percentages # << >>
    /\ percentages[Len(percentages)] = 100
    /\ generation.image_data \notin {Absent, ""}

C30_Witness ==
  /\ generation.status = "completed"
  /\ generation.callback
  /\ Len(percentages) = generation.num_inference_steps + 4
  /\ percentages[1] = 10
  /\ percentages[Len(percentages)] = 100

\* C32: a step other than add_job that leaves the hash of a job in the
\* store (the worker's writes of processing, completed and failed) leaves
\* its data and created_at as they were.
C32_WorkerKeepsPayload ==
  [][ \A j \in JobIds :
        (nextId' = nextId /\ store'[j].exists) =>
          /\ store'[j].data = store[j].data
          /\ store'[j].created_at = store[j].created_at ]_vars

C32_Witness ==
  \E j \in added :
    /\ statusLog[j] = << "queued", "processing", "completed" >>
    /\ store[j].status = "completed"
    /\ store[j].data = "cat"
    /\ store[j].created_at # NoTime

\* C36: when start_worker returns, a worker loop is running: processing
\* is True and worker_task is not done.  The early return of start_worker
\* changes nothing, so the state it returns in is the state it was called
\* in: wherever start_worker can be called and returns early, the flag is
\* set and the task is running.
C36_StartWorkerLeavesWorkerRunning ==
  (LoopFree /\ start_worker_returns_early) => (processing /\ TaskRunning)

\* Job j has been popped and no worker task is handling it any more.
Handled(j) ==
  /\ \E i \in 1..Len(popLog) : popLog[i] = j
  /\ ~InHand(j)

\* C37: a job taken from the pending list is never dropped: once the
\* worker is done with it (no stop_worker, hash not expired), its hash has
\* a terminal status or the job is on the list again, also when Redis
\* writes raised while the worker handled it.
C37_PoppedJobNotDropped ==
  \A j \in JobIds :
    (Handled(j) /\ ~stopCalled /\ j \notin expired) =>
      \/ store[j].status \in Terminal
      \/ \E i \in 1..Len(queue) : queue[i].id = j

\* C34: a cycle whose notice probe does not answer 200 (404, or the
\* request failed), and that no other helper left by an exception, emits
\* no spot_interruption event and ends in the normal sleep: the sleep of
\* the task ends one polling interval after the pass and the loop is not
\* in the error backoff.
C34_NoNoticeIsNormalCycle ==
  [][ LET cycle == Len(probes')
      IN (/\ cycle = Len(probes) + 1
          /\ probes'[cycle].notice.status # 200
          /\ probes'[cycle].raised = "none") =>
           /\ \A i \in 1..Len(monitor_events') :
                ~(/\ monitor_events'[i].type = "spot_interruption"
                  /\ monitor_events'[i].cycle = cycle)
           /\ \E l \in LoopIds :
                /\ loops'[l] = "sleeping"
                /\ wake'[l] = time' + PollInterval
           /\ \A l \in LoopIds :
                loops'[l] # loops[l] => loops'[l] = "sleeping"
           /\ \A l \in LoopIds :
                wake'[l] # wake[l] => loops'[l] = "sleeping" ]_vars

C34_Witness ==
  /\ \E i \in 1..Len(probes) : probes[i].notice.status = 404
  /\ \E i \in 1..Len(probes) : probes[i].notice.status = 0
  /\ \A i \in 1..Len(probes) : probes[i].raised = "none"
  /\ \E l \in LoopIds :
       loops[l] = "sleeping" /\ wake[l] = Len(probes) * PollInterval
  /\ \A i \in 1..Len(monitor_events) :
       monitor_events[i].type # "spot_interruption"

\* C33: the HTTP fallback carries progress events only, and a POST that
\* fails is swallowed where it is made: no exception leaves the fallback,
\* the progress event has been handed to MQTT and EventBridge all the
\* same, and the request is answered with the collaborator's outcome after
\* the terminal event went to MQTT and EventBridge.
C33_HttpFallbackProgressOnly ==
  \A e \in events :
    e.chan = "http" =>
      /\ e.kind = "progress"
      /\ ~e.raised
      /\ e.transport = "raise" =>
           /\ \A c \in TerminalChannels : Called("progress", c)
           /\ Responded =>
                /\ response = ResponseOf(collab, job_id)
                /\ \A c \in TerminalChannels :
                     Called(TerminalKind(collab), c)
                /\ ~Called(TerminalKind(collab), "http")

C33_Witness ==
  /\ response = "completed"
  /\ \E e \in events :
       e.kind = "progress" /\ e.chan = "http" /\ e.transport = "raise"
  /\ \E e \in events :
       e.kind = "progress" /\ e.chan = "mqtt" /\ e.result = "true"
  /\ \E e \in events :
       e.kind = "completed" /\ e.chan = "eventbridge" /\ e.result = "true"

\* C38: at most one MqttClient has a running network loop, and a client
\* that get_mqtt_client created and did not keep as the global has its loop
\* stopped and is never connected.
C38_OneRunningLoop ==
  /\ Cardinality({ c \in ClientIds : clients[c].loop }) <= 1
  /\ \A c \in ClientIds :
       (clients[c].made /\ c # mqtt_client) =>
         (~clients[c].loop /\ ~clients[c].connected)

\* The kinds of terminal event dispatched for the request handled last.
TerminalKinds == { e.kind : e \in events } \cap Terminal

\* C39: a request that has been answered had exactly one kind of terminal
\* event dispatched, completed or failed, and no progress event is
\* dispatched once a terminal event has been.
C39_OneTerminalKindAfterProgress ==
  /\ [](Responded => Cardinality(TerminalKinds) = 1)
  /\ [][TerminalKinds # {} =>
          \A e \in events' : e.kind = "progress" => e \in events]_vars

\* C35: send_service_event never raises, and a call made while the global
\* MQTT client is connected publishes the event on MQTT, whatever the
\* EventBridge send did: every step that logs a service event while a
\* connected client exists hands the event to that client.
C35_ServiceEventPublished ==
  [][ \A t \in ServiceEventTypes :
        (/\ \E e \in events' : e.kind = t /\ e \notin events
         /\ mqtt_client # 0
         /\ clients[mqtt_client].connected) =>
          \E e \in events' : e.kind = t /\ e.chan = "mqtt" /\ e.handed ]_vars

\* C31: every job submitted to the mock service is eventually reported
\* as completed or failed by GET /job/{job_id}.
C31_MockJobReachesTerminal ==
  \A j \in MockIds : (jobs[j] # NoJob) ~> (seen[j].status \in Terminal)

C31_Witness ==
  \E j \in MockIds :
    /\ seen[j].status = "completed"
    /\ seen[j].progress = 100
    /\ seen[j].image_url.seed = DefaultSeed
    /\ \E k \in MockIds : jobs[k].status = "processing"

====
